---- MODULE Spec2Model ----
(***************************************************************************)
(* A model of querygraph: the query-template engine                        *)
(* (querygraph/query/template/query_template.py), the query-node tree with *)
(* its execution and join fold (querygraph/query/node/query_node.py), and  *)
(* the manipulation set with its stages and its pipeline parser            *)
(* (querygraph/manipulation/set/manipulation_set.py).                      *)
(*                                                                         *)
(* Text is a sequence of one-character strings.  A frame (a pandas         *)
(* DataFrame) is abstracted to the record [src, cols]: src lists the nodes *)
(* whose retrieved rows were merged into it, in merge order, and cols is   *)
(* the set of its column names.  Python's None, where a frame is expected, *)
(* is the frame with no source at all.  The manipulation stages work on    *)
(* the columns themselves, and there a frame is the sequence of its        *)
(* columns with their values.                                              *)
(***************************************************************************)
EXTENDS Integers, Sequences, FiniteSets, TLC

\* ------------------------------------------------------------------ bounds
\* Number of atoms a template of the template specification is built from.
MaxAtoms == 4
\* Number of QueryNode objects of the graph specification.
NumNodes == 3
\* Number of add_column calls made on the nodes.
MaxAddedColumns == 1
\* Number of calls of QueryNode.execute.
MaxRuns == 1
\* Number of stages of a manipulation set.
MaxStages == 2

\* ------------------------------------------------------------- text helpers
Str1(a) == <<a>>
Str2(a, b) == <<a, b>>

startswith(s, p) == Len(s) >= Len(p) /\ SubSeq(s, 1, Len(p)) = p

RECURSIVE lstrip(_)
lstrip(s) == IF s # <<>> /\ Head(s) = " " THEN lstrip(Tail(s)) ELSE s

RECURSIVE rstrip(_)
rstrip(s) == IF s # <<>> /\ s[Len(s)] = " " THEN rstrip(SubSeq(s, 1, Len(s) - 1)) ELSE s

strip(s) == rstrip(lstrip(s))

\* token[2:-2].strip(): Python's slice is empty when the token has under 5
\* characters.
tok_expr(token) == strip(SubSeq(token, 3, Len(token) - 2))

\* ------------------------------------------------------------------ frames
NoFrame == [src |-> <<>>, cols |-> {}]

NoParams == [x \in {} |-> <<>>]

\* Outcome of a call: it returned a value, or it raised an exception.
Returned(v) == [exc |-> "", out |-> v]
Raised(e) == [exc |-> e, out |-> <<>>]

\* ----------------------------------------------------- the template engine
\* The character that closes a token opened by "{" followed by c.
CloserOf(c) == IF c = "{" THEN "}" ELSE c

\* Least k >= j with q[k] = c and q[k+1] = "}", or 0: where the lazy `.*?`
\* of the regular expression stops.
RECURSIVE FindClose(_, _, _)
FindClose(q, j, c) ==
    IF j + 1 > Len(q) THEN 0
    ELSE IF q[j] = c /\ q[j + 1] = "}" THEN j
    ELSE FindClose(q, j + 1, c)

\* Index of the last character of the match of
\* ({{.*?}}|{%.*?%}|{#.*?#}) that starts at i, or 0 when none starts there.
MatchEnd(q, i) ==
    IF i + 3 > Len(q) THEN 0
    ELSE IF q[i] # "{" \/ q[i + 1] \notin {"{", "%", "#"} THEN 0
    ELSE LET k == FindClose(q, i + 2, CloserOf(q[i + 1]))
         IN  IF k = 0 THEN 0 ELSE k + 1

\* re.split with one capturing group: the text between the matches and the
\* matches themselves, alternating; the odd places hold the text between.
RECURSIVE re_split_from(_, _, _)
re_split_from(q, start, i) ==
    IF i > Len(q) THEN <<SubSeq(q, start, Len(q))>>
    ELSE LET e == MatchEnd(q, i)
         IN  IF e = 0 THEN re_split_from(q, start, i + 1)
             ELSE <<SubSeq(q, start, i - 1), SubSeq(q, i, e)>>
                     \o re_split_from(q, e + 1, e + 1)

re_split(q) == re_split_from(q, 1, 1)

\* Index of the last character of the match of ({{.*?}}) that starts at i,
\* or 0 when none starts there.
dependent_MatchEnd(q, i) ==
    IF i + 3 > Len(q) THEN 0
    ELSE IF q[i] # "{" \/ q[i + 1] # "{" THEN 0
    ELSE LET k == FindClose(q, i + 2, "}")
         IN  IF k = 0 THEN 0 ELSE k + 1

\* re.split(r"(?s)({{.*?}})", query)
RECURSIVE dependent_split_from(_, _, _)
dependent_split_from(q, start, i) ==
    IF i > Len(q) THEN <<SubSeq(q, start, Len(q))>>
    ELSE LET e == dependent_MatchEnd(q, i)
         IN  IF e = 0 THEN dependent_split_from(q, start, i + 1)
             ELSE <<SubSeq(q, start, i - 1), SubSeq(q, i, e)>>
                     \o dependent_split_from(q, e + 1, e + 1)

\* QueryTemplate.has_dependent_parameters
has_dependent_parameters(query) ==
    LET tokens == dependent_split_from(query, 1, 1)
    IN  \E k \in 1..Len(tokens) : startswith(tokens[k], Str2("{", "{"))

\* TemplateParameter.query_value for a dependent parameter: the named column
\* of the parent frame, formatted.
dependent_query_value(name, df) ==
    IF name \in df.cols THEN Returned(<<"2">>)
    ELSE Raised("DependentParameterException")

\* TemplateParameter.query_value for an independent parameter: the caller's
\* value for the name, formatted.
independent_query_value(name, params) ==
    IF name \in DOMAIN params THEN Returned(params[name])
    ELSE Raised("IndependentParameterException")

\* The body of the loop of render with the branch of the independent
\* parameters left out.
render_token_no_independent(token, df, params) ==
    IF startswith(token, Str2("{", "{")) THEN
        IF df = NoFrame THEN Raised("DependentParameterException")
        ELSE dependent_query_value(tok_expr(token), df)
    ELSE IF startswith(token, Str2("{", "#")) THEN Returned(<<>>)
    ELSE Returned(token)

\* The body of the loop of render with the branch of the comments left out.
render_token_no_comment(token, df, params) ==
    IF startswith(token, Str2("{", "{")) THEN
        IF df = NoFrame THEN Raised("DependentParameterException")
        ELSE dependent_query_value(tok_expr(token), df)
    ELSE IF startswith(token, Str2("{", "%")) THEN
        IF DOMAIN params = {} THEN Raised("IndependentParameterException")
        ELSE independent_query_value(tok_expr(token), params)
    ELSE Returned(token)

\* The body of the loop of render for one token.
render_token(token, df, params) ==
    IF startswith(token, Str2("{", "{")) THEN
        IF df = NoFrame THEN Raised("DependentParameterException")
        ELSE dependent_query_value(tok_expr(token), df)
    ELSE IF startswith(token, Str2("{", "#")) THEN Returned(<<>>)
    ELSE IF startswith(token, Str2("{", "%")) THEN
        IF DOMAIN params = {} THEN Raised("IndependentParameterException")
        ELSE independent_query_value(tok_expr(token), params)
    ELSE Returned(token)

RECURSIVE render_loop(_, _, _, _, _)
render_loop(tokens, k, parsed_query, df, params) ==
    IF k > Len(tokens) THEN Returned(parsed_query)
    ELSE LET r == render_token(tokens[k], df, params)
         IN  IF r.exc # "" THEN r
             ELSE render_loop(tokens, k + 1, parsed_query \o r.out, df, params)

render(query, df, params) == render_loop(re_split(query), 1, <<>>, df, params)

\* db_connector.execute_query: the frame the database returns for the
\* rendered query, or the driver's failure.
execute_query(src, ok) ==
    IF ok THEN Returned([src |-> src, cols |-> {Str1("a")}])
    ELSE Raised("ConnectorException")

\* QueryTemplate.execute
template_execute(query, df, params, src, ok) ==
    LET rendered_query == render(query, df, params)
    IN  IF rendered_query.exc # "" THEN rendered_query
        ELSE execute_query(src, ok)

\* ----------------------------------------------------------- the node tree
Nodes == 1..NumNodes

\* Python's None where a node is expected.
NoNode == 0

Range(f) == { f[i] : i \in DOMAIN f }

RECURSIVE Reverse(_)
Reverse(s) == IF s = <<>> THEN <<>> ELSE Append(Reverse(Tail(s)), Head(s))

\* The query text of the nodes: an independent parameter, a dependent
\* parameter on a retrieved column, a dependent parameter on an added
\* column, plain text.
NodeQueries ==
    << <<"{", "%", "a", "%", "}">>,
       <<"{", "{", "a", "}", "}">>,
       <<"{", "{", "b", "}", "}">>,
       <<"a">> >>

QueryOf(n) == NodeQueries[((n - 1) % Len(NodeQueries)) + 1]

\* JoinContext.apply_join: the merge of the child's frame into the parent's,
\* or the failure of the merge.
apply_join(parent_df, child_df, ok) ==
    IF ok /\ parent_df # NoFrame /\ child_df # NoFrame
    THEN Returned([src |-> parent_df.src \o child_df.src,
                   cols |-> parent_df.cols \cup child_df.cols])
    ELSE Raised("JoinException")

\* Evaluator.eval of the expression of an added column.
evaluator_eval(frame, ok) ==
    IF ok THEN Returned([frame EXCEPT !.cols = @ \cup {Str1("b")}])
    ELSE Raised("EvaluatorException")

\* ------------------------------------------------------------------- state
VARIABLES
    t_query,      \* QueryTemplate.query
    t_df,         \* the df argument of render / execute
    t_params,     \* the independent_param_vals of render / execute
    t_pc,         \* "new", "rendered", "executed", "asked"
    t_result,     \* what render or execute returned or raised
    t_connector,  \* the queries the connector was asked to execute
    parent,       \* QueryNode.parent, NoNode for None
    children,     \* QueryNode.children
    new_columns,  \* whether QueryNode._new_columns holds a column
    df,           \* QueryNode.df, NoFrame for None
    already_executed, \* QueryNode.already_executed
    build_error,  \* the exception of the last attachment, "" when it succeeded
    pc,           \* "idle", where the call of execute is: "executing", "folding", or "joined"
    runs,         \* the number of calls of execute so far
    caller,       \* the node execute() was called on
    independent_param_vals, \* the **independent_param_vals of that call
    todo,         \* the nodes the loop of execute has still to visit
    fold_todo,    \* the nodes the loop of _fold_children has still to join
    outcome,      \* what the call of execute returned or raised
    exec_log,     \* the calls of _execute: the parent's state at the call, the exception
    join_log,     \* the calls of join_with_parent made by the fold
    joined,       \* the node join_with_parent was called on from outside, NoNode if none
    t_has_dependent, \* what has_dependent_parameters returned
    m_df,         \* the frame handed to ManipulationSet.execute
    m_manipulations, \* ManipulationSet.manipulations
    m_text,       \* the pipeline text appended with append_from_str or <<
    m_appended_at, \* the length of the stage list when the text was appended
    m_parse,      \* the exception the append of the text raised, "" if none
    m_pc,         \* "build", "done"
    m_result      \* what ManipulationSet.execute returned or raised

tvars == <<t_query, t_df, t_params, t_pc, t_result, t_connector, t_has_dependent>>

treevars == <<parent, children, new_columns, build_error>>

runvars == <<df, already_executed, pc, runs, caller, independent_param_vals, todo,
             fold_todo, outcome, exec_log, join_log>>

gvars == <<treevars, runvars, joined>>

mvars == <<m_df, m_manipulations, m_text, m_appended_at, m_parse, m_pc, m_result>>

vars == <<tvars, gvars, mvars>>

\* QueryNode.__iter__ yielding the children before the node itself.
iter_children_first(n) == children[n] \o <<n>>

\* QueryNode.__iter__
iter(n) == <<n>> \o children[n]

\* QueryNode.__contains__
contains(n, item) == item \in Range(iter(n))

\* QueryNode.creates_cycle
creates_cycle(n, child_node) == contains(child_node, n)

\* QueryNode.is_root_node
\* A node that takes itself for the root whatever its parent.
always_root(n) == TRUE

is_root_node(n) == parent[n] = NoNode

\* QueryNode.join_with_parent: the frame it gives the parent, or what it
\* raises; reading self.parent.df of a node without parent is an
\* AttributeError.
join_with_parent(n, ok) ==
    IF parent[n] = NoNode /\ df[n] = NoFrame THEN Raised("QueryGraphException")
    ELSE IF parent[n] = NoNode THEN Raised("AttributeError")
    ELSE apply_join(df[parent[n]], df[n], ok)

\* The list _fold_children would build with append(child).
topological_ordering(n) == SelectSeq(iter(n), LAMBDA child : child # n)

\* The list _fold_children builds with insert(0, child).
reverse_topological_ordering(n) ==
    Reverse(SelectSeq(iter(n), LAMBDA child : child # n))

\* The loop of execute going on whatever _execute did.
loop_swallows(r) == TRUE

\* Whether the loop of execute goes on to the next node after a call of
\* _execute: an exception leaves the loop and execute.
loop_continues(r) == r.exc = ""

\* QueryNode._execute: the frame and the flag of node n after the call, and
\* what the call returned or raised.
_execute(n, ok_query, ok_eval) ==
    LET parent_df == IF parent[n] # NoNode THEN df[parent[n]] ELSE NoFrame
        got == template_execute(QueryOf(n), parent_df, independent_param_vals, <<n>>, ok_query)
        added == evaluator_eval(got.out, ok_eval)
    IN  IF got.exc # "" THEN
            [df |-> df[n], already_executed |-> already_executed[n], exc |-> got.exc]
        ELSE IF ~new_columns[n] THEN
            [df |-> got.out, already_executed |-> TRUE, exc |-> ""]
        ELSE IF added.exc # "" THEN
            [df |-> got.out, already_executed |-> already_executed[n], exc |-> added.exc]
        ELSE
            [df |-> added.out, already_executed |-> TRUE, exc |-> ""]

\* ------------------------------------------------ the template specification
Atoms ==
    { Str2("{", "{"), Str2("}", "}"), Str2("{", "%"), Str2("%", "}"),
      Str2("{", "#"), Str2("#", "}"), Str1("a"), Str1(" ") }

RECURSIVE Concat(_)
Concat(ss) == IF ss = <<>> THEN <<>> ELSE Head(ss) \o Concat(Tail(ss))

Templates == { Concat(ss) : ss \in UNION { [1..n -> Atoms] : n \in 0..MaxAtoms } }

ParamMaps ==
    { NoParams, [x \in {Str1("a")} |-> <<"1">>], [x \in {Str1("b")} |-> <<"1">>] }

ParentFrames == { NoFrame, [src |-> <<0>>, cols |-> {Str1("a")}] }

GraphInit ==
    /\ parent = [n \in Nodes |-> NoNode]
    /\ children = [n \in Nodes |-> <<>>]
    /\ new_columns = [n \in Nodes |-> FALSE]
    /\ df = [n \in Nodes |-> NoFrame]
    /\ already_executed = [n \in Nodes |-> FALSE]
    /\ build_error = ""
    /\ pc = "idle"
    /\ runs = 0
    /\ caller = NoNode
    /\ independent_param_vals = NoParams
    /\ todo = <<>>
    /\ fold_todo = <<>>
    /\ outcome = ""
    /\ exec_log = <<>>
    /\ join_log = <<>>
    /\ joined = NoNode

TemplateIdle ==
    /\ t_query = <<>>
    /\ t_df = NoFrame
    /\ t_params = NoParams
    /\ t_pc = "new"
    /\ t_result = Returned(<<>>)
    /\ t_connector = <<>>
    /\ t_has_dependent = FALSE

\* No manipulation set is in play.
ManipulationIdle ==
    /\ m_df = <<>>
    /\ m_manipulations = <<>>
    /\ m_text = <<>>
    /\ m_appended_at = 0
    /\ m_parse = ""
    /\ m_pc = "build"
    /\ m_result = Returned(<<>>)

TInit ==
    /\ GraphInit
    /\ ManipulationIdle
    /\ t_query \in Templates
    /\ t_df \in ParentFrames
    /\ t_params \in ParamMaps
    /\ t_pc = "new"
    /\ t_result = Returned(<<>>)
    /\ t_connector = <<>>
    /\ t_has_dependent = FALSE

\* A call of QueryTemplate.render.
Render ==
    /\ t_pc = "new"
    /\ t_pc' = "rendered"
    /\ t_result' = render(t_query, t_df, t_params)
    /\ UNCHANGED <<t_query, t_df, t_params, t_connector, t_has_dependent, gvars, mvars>>

\* A call of QueryTemplate.execute.
TemplateExecute ==
    /\ t_pc = "new"
    /\ \E ok \in BOOLEAN :
         LET rendered_query == render(t_query, t_df, t_params)
         IN  /\ t_result' = template_execute(t_query, t_df, t_params, <<0>>, ok)
             /\ t_connector' = IF rendered_query.exc = ""
                                 THEN Append(t_connector, rendered_query.out)
                                 ELSE t_connector
    /\ t_pc' = "executed"
    /\ UNCHANGED <<t_query, t_df, t_params, t_has_dependent, gvars, mvars>>

\* A call of QueryTemplate.has_dependent_parameters.
HasDependentParameters ==
    /\ t_pc = "new"
    /\ t_pc' = "asked"
    /\ t_has_dependent' = has_dependent_parameters(t_query)
    /\ UNCHANGED <<t_query, t_df, t_params, t_result, t_connector, gvars, mvars>>

TNext == Render \/ TemplateExecute \/ HasDependentParameters

SpecTemplate == TInit /\ [][TNext]_vars

\* --------------------------------------------------- the graph specification
\* QueryNode.add_column on node n, before the graph is executed.
AddColumn(n) ==
    /\ pc = "idle"
    /\ runs = 0
    /\ ~new_columns[n]
    /\ Cardinality({m \in Nodes : new_columns[m]}) < MaxAddedColumns
    /\ new_columns' = [new_columns EXCEPT ![n] = TRUE]
    /\ UNCHANGED <<mvars, tvars, joined, parent, children, build_error, runvars>>

\* The graph builder attaches node c, which has no parent yet, as the last
\* child of node p, unless p.creates_cycle(c).
AddChild(p, c) ==
    /\ pc = "idle"
    /\ runs = 0
    /\ parent[c] = NoNode
    /\ IF creates_cycle(p, c)
       THEN /\ build_error' = "CycleException"
            /\ UNCHANGED <<parent, children>>
       ELSE /\ build_error' = ""
            /\ parent' = [parent EXCEPT ![c] = p]
            /\ children' = [children EXCEPT ![p] = Append(@, c)]
    /\ UNCHANGED <<mvars, tvars, joined, new_columns, runvars>>

GraphParamMaps == { NoParams, [x \in {Str1("a")} |-> <<"1">>] }

\* A call of QueryNode.execute on node n enters its loop over the node and
\* its children.
ExecuteCall(n) ==
    /\ pc = "idle"
    /\ runs < MaxRuns
    /\ runs' = runs + 1
    /\ pc' = "executing"
    /\ caller' = n
    /\ independent_param_vals' \in GraphParamMaps
    /\ todo' = iter(n)
    /\ fold_todo' = <<>>
    /\ outcome' = ""
    /\ exec_log' = <<>>
    /\ join_log' = <<>>
    /\ UNCHANGED <<mvars, tvars, joined, treevars, df, already_executed>>

\* One turn of the loop of execute: _execute on the next node.
ExecuteStep ==
    /\ pc = "executing"
    /\ todo # <<>>
    /\ \E ok_query \in BOOLEAN, ok_eval \in BOOLEAN :
         LET n == Head(todo)
             r == _execute(n, ok_query, ok_eval)
         IN  /\ df' = [df EXCEPT ![n] = r.df]
             /\ already_executed' = [already_executed EXCEPT ![n] = r.already_executed]
             /\ exec_log' = Append(exec_log,
                    [node |-> n,
                     parent_df |-> IF parent[n] # NoNode THEN df[parent[n]] ELSE NoFrame,
                     parent_executed |-> parent[n] # NoNode /\ already_executed[parent[n]],
                     exc |-> r.exc])
             /\ IF loop_continues(r)
                THEN /\ todo' = Tail(todo)
                     /\ UNCHANGED <<pc, outcome>>
                ELSE /\ pc' = "idle"
                     /\ outcome' = r.exc
                     /\ UNCHANGED todo
    /\ UNCHANGED <<mvars, tvars, joined, treevars, runs, caller, independent_param_vals, fold_todo, join_log>>

\* The loop of execute is over: the root goes on to _fold_children, any
\* other node returns.
ExecuteLoopEnd ==
    /\ pc = "executing"
    /\ todo = <<>>
    /\ IF is_root_node(caller)
       THEN /\ pc' = "folding"
            /\ fold_todo' = reverse_topological_ordering(caller)
            /\ UNCHANGED outcome
       ELSE /\ pc' = "idle"
            /\ outcome' = "returned"
            /\ UNCHANGED fold_todo
    /\ UNCHANGED <<mvars, tvars, joined, treevars, df, already_executed, runs, caller, independent_param_vals, todo,
                   exec_log, join_log>>

\* One turn of the loop of _fold_children: join_with_parent on the next node.
FoldStep ==
    /\ pc = "folding"
    /\ fold_todo # <<>>
    /\ \E ok \in BOOLEAN :
         LET n == Head(fold_todo)
             joined_df == join_with_parent(n, ok)
         IN  /\ join_log' = Append(join_log, n)
             /\ IF joined_df.exc = ""
                THEN /\ df' = [df EXCEPT ![parent[n]] = joined_df.out]
                     /\ fold_todo' = Tail(fold_todo)
                     /\ UNCHANGED <<pc, outcome>>
                ELSE /\ pc' = "idle"
                     /\ outcome' = joined_df.exc
                     /\ UNCHANGED <<df, fold_todo>>
    /\ UNCHANGED <<mvars, tvars, joined, treevars, already_executed, runs, caller, independent_param_vals, todo, exec_log>>

\* _fold_children and execute return.
FoldEnd ==
    /\ pc = "folding"
    /\ fold_todo = <<>>
    /\ pc' = "idle"
    /\ outcome' = "returned"
    /\ UNCHANGED <<mvars, tvars, joined, treevars, df, already_executed, runs, caller, independent_param_vals, todo,
                   fold_todo, exec_log, join_log>>

\* A call of join_with_parent on node n from outside execute, the last call
\* the model follows.
JoinWithParentCall(n) ==
    /\ pc = "idle"
    /\ pc' = "joined"
    /\ joined' = n
    /\ \E ok \in BOOLEAN :
         LET joined_df == join_with_parent(n, ok)
         IN  IF joined_df.exc = ""
             THEN /\ df' = [df EXCEPT ![parent[n]] = joined_df.out]
                  /\ outcome' = "returned"
             ELSE /\ outcome' = joined_df.exc
                  /\ UNCHANGED df
    /\ caller' = NoNode
    /\ exec_log' = <<>>
    /\ join_log' = <<>>
    /\ UNCHANGED <<mvars, tvars, treevars, already_executed, runs, independent_param_vals, todo,
                   fold_todo>>

GInit == GraphInit /\ TemplateIdle /\ ManipulationIdle

GNext ==
    \/ \E n \in Nodes : AddColumn(n)
    \/ \E p \in Nodes, c \in Nodes : AddChild(p, c)
    \/ \E n \in Nodes : ExecuteCall(n)
    \/ ExecuteStep
    \/ ExecuteLoopEnd
    \/ FoldStep
    \/ FoldEnd
    \/ \E n \in Nodes : JoinWithParentCall(n)

SpecGraph == GInit /\ [][GNext]_vars

\* ----------------------------------------------------- claims on the graph
\* The nodes reachable from the nodes of S through the children lists.
RECURSIVE Closure(_)
Closure(S) ==
    LET T == S \cup UNION { Range(children[n]) : n \in S }
    IN  IF T = S THEN S ELSE Closure(T)

Subtree(r) == Closure({r})

\* The nodes _execute was called on in the current call of execute, in order.
Retrieved == [i \in 1..Len(exec_log) |-> exec_log[i].node]

IsPrefix(s, t) == Len(s) <= Len(t) /\ SubSeq(t, 1, Len(s)) = s

Pos(s, x) == CHOOSE i \in 1..Len(s) : s[i] = x

RootRun == caller # NoNode /\ is_root_node(caller)

\* C1 as stated: once execute on the root has returned, every node of the
\* root's subtree has already_executed = TRUE and the root's frame holds the
\* frame of every node of the subtree.
C1_AsStated ==
    (RootRun /\ pc = "idle" /\ outcome = "returned")
        => /\ \A n \in Subtree(caller) : already_executed[n]
           /\ Range(df[caller].src) = Subtree(caller)

\* C2: in a call of execute on the root, whenever _execute begins on a node
\* that has a parent, the parent's _execute of this call is over, its frame
\* is set with its added columns created, and its already_executed is TRUE.
C2_ParentReadyBeforeChild ==
    RootRun =>
        \A i \in 1..Len(exec_log) :
            LET c == exec_log[i].node
            IN  parent[c] # NoNode =>
                  /\ \E j \in 1..(i - 1) :
                        exec_log[j].node = parent[c] /\ exec_log[j].exc = ""
                  /\ exec_log[i].parent_df # NoFrame
                  /\ new_columns[parent[c]] => Str1("b") \in exec_log[i].parent_df.cols
                  /\ exec_log[i].parent_executed

\* A call of execute on the root in which _execute ran on a child whose
\* parent has an added column.
C2_Witness ==
    /\ RootRun
    /\ \E i \in 1..Len(exec_log) :
          /\ parent[exec_log[i].node] = caller
          /\ new_columns[caller]
          /\ exec_log[i].exc = ""

\* C3: in a call of execute on the root, the nodes join_with_parent was
\* called on are, in order, the nodes other than the root that _execute was
\* called on, reversed: a beginning of that list while the fold is under
\* way or after a join raised, all of it once execute has returned.
C3_FoldReversesRetrieval ==
    RootRun =>
        LET reversed == Reverse(SelectSeq(Retrieved, LAMBDA n : n # caller))
        IN  /\ IsPrefix(join_log, reversed)
            /\ (pc = "idle" /\ outcome = "returned") => join_log = reversed

\* A call of execute on the root that returned after at least two joins.
C3_Witness ==
    /\ RootRun
    /\ pc = "idle"
    /\ outcome = "returned"
    /\ Len(join_log) >= 2

\* Children a and b of the same parent, a attached before b, both joined by
\* the fold of the current call.
JoinedSiblings ==
    { ab \in Nodes \X Nodes :
        /\ ab[1] # ab[2]
        /\ parent[ab[1]] # NoNode
        /\ parent[ab[1]] = parent[ab[2]]
        /\ Pos(children[parent[ab[1]]], ab[1]) < Pos(children[parent[ab[1]]], ab[2])
        /\ ab[1] \in Range(join_log)
        /\ ab[2] \in Range(join_log) }

\* C4 as stated: of two siblings the fold joins the one declared first
\* before the other.
C4_AsStated ==
    \A ab \in JoinedSiblings : Pos(join_log, ab[1]) < Pos(join_log, ab[2])

\* C4, amended: of two siblings the fold joins, it joins the one declared
\* later before the one declared first.
C4_LaterSiblingJoinedFirst ==
    \A ab \in JoinedSiblings : Pos(join_log, ab[2]) < Pos(join_log, ab[1])

\* Two siblings both joined into their parent by the fold.
C4_Witness == JoinedSiblings # {} /\ pc = "idle" /\ outcome = "returned"

\* C5: when a call of _execute made by execute on the root raises, execute
\* is over with that exception, the failed call is the last call of
\* _execute, on the nodes in the order of the loop, the nodes retrieved
\* before it hold their own retrieved frame, and join_with_parent was not
\* called.
C5_FailureStopsExecute ==
    RootRun =>
        \A i \in 1..Len(exec_log) :
            exec_log[i].exc # "" =>
              /\ pc = "idle"
              /\ outcome = exec_log[i].exc
              /\ i = Len(exec_log)
              /\ Retrieved = SubSeq(iter(caller), 1, i)
              /\ \A j \in 1..(i - 1) : df[exec_log[j].node].src = <<exec_log[j].node>>
              /\ join_log = <<>>

\* A call of execute on the root that raised on a child, with a later child
\* left alone.
C5_Witness ==
    /\ RootRun
    /\ pc = "idle"
    /\ Len(exec_log) >= 2
    /\ exec_log[Len(exec_log)].exc # ""
    /\ Len(exec_log) < Len(iter(caller))

\* C6 as stated: for every node r and every node c of the subtree of r,
\* c.creates_cycle(r) is true.
C6_AsStated ==
    \A r \in Nodes : \A c \in Subtree(r) : creates_cycle(c, r)

\* C15: execute folds if and only if it was called on the root.  A call on
\* a node that has a parent retrieves that node and its direct children and
\* makes no call of join_with_parent: the frames of its parent and of every
\* node it did not retrieve stay as they were.  A call on the root goes on
\* to the fold once its loop is over.
C15_NonRootExecuteDoesNotFold ==
    [][ /\ (caller' # NoNode /\ parent'[caller'] # NoNode) =>
             /\ join_log' = <<>>
             /\ pc' # "folding"
             /\ \A n \in Nodes \ Range(iter(caller')) : df'[n] = df[n]
             /\ outcome' = "returned" => Retrieved' = iter(caller')
        /\ (pc = "executing" /\ todo = <<>> /\ parent[caller] = NoNode) =>
             pc' = "folding"
      ]_vars

C15_Witness ==
    /\ pc = "idle"
    /\ caller # NoNode
    /\ parent[caller] # NoNode
    /\ children[caller] # <<>>
    /\ outcome = "returned"
    /\ Retrieved = iter(caller)
    /\ join_log = <<>>
    /\ df[caller].src = <<caller>>
    /\ df[parent[caller]] = NoFrame

\* The exceptions that are a QueryGraphException.
IsQueryGraphException(exc) == exc \in {"QueryGraphException", "JoinException"}

\* C17 as stated: join_with_parent on a node that has no parent, or whose
\* frame is None, fails with QueryGraphException and changes no frame; when
\* it succeeds only the parent's frame changes.
C17_AsStated ==
    [][ (pc = "idle" /\ pc' = "joined") =>
          /\ (parent[joined'] = NoNode \/ df[joined'] = NoFrame) =>
               /\ IsQueryGraphException(outcome')
               /\ df' = df
          /\ outcome' = "returned" =>
               \A n \in Nodes \ {parent[joined']} : df'[n] = df[n]
      ]_vars


\* ------------------------------------------------- claims on the templates
\* The places of re_split(q) that hold the tokens the expression matched.
TokenPlaces(q) == { k \in 1..Len(re_split(q)) : k % 2 = 0 }

\* The places that hold the text between the tokens.
TextPlaces(q) == { k \in 1..Len(re_split(q)) : k % 2 = 1 }

IsDependentToken(tok) == startswith(tok, Str2("{", "{"))
IsIndependentToken(tok) == startswith(tok, Str2("{", "%"))
IsCommentToken(tok) == startswith(tok, Str2("{", "#"))

\* The independent-parameter tokens of q whose name t_params does not hold.
MissingPlaces(q, given) ==
    { k \in TokenPlaces(q) :
        /\ IsIndependentToken(re_split(q)[k])
        /\ tok_expr(re_split(q)[k]) \notin DOMAIN given }

Least(S) == CHOOSE k \in S : \A j \in S : k <= j

\* C7 as stated: a template with an independent-parameter token whose name
\* the parameter map does not hold makes render raise
\* IndependentParameterException.
C7_AsStated ==
    (t_pc = "rendered" /\ MissingPlaces(t_query, t_params) # {})
        => t_result.exc = "IndependentParameterException"

\* C7, amended: such a render raises and returns no query string; the
\* exception is IndependentParameterException unless a piece of the text
\* before the token, which render takes for a dependent parameter, raised
\* DependentParameterException first.
C7_MissingIndependentRaises ==
    (t_pc = "rendered" /\ MissingPlaces(t_query, t_params) # {})
        => \/ t_result = Raised("IndependentParameterException")
           \/ /\ t_result = Raised("DependentParameterException")
              /\ \E j \in 1..(Least(MissingPlaces(t_query, t_params)) - 1) :
                    IsDependentToken(re_split(t_query)[j])

\* A render that raised IndependentParameterException for a name that a
\* non-empty parameter map does not hold.
C7_Witness ==
    /\ t_pc = "rendered"
    /\ \E k \in MissingPlaces(t_query, t_params) :
          tok_expr(re_split(t_query)[k]) = Str1("a")
    /\ DOMAIN t_params # {}
    /\ t_result = Raised("IndependentParameterException")

\* C8 as stated: with a dependent-parameter token in the template, every
\* independent parameter supplied and no parent frame, render raises
\* DependentParameterException and execute never reaches the connector.
C8_AsStated ==
    ( /\ t_pc \in {"rendered", "executed"}
      /\ \E k \in TokenPlaces(t_query) : IsDependentToken(re_split(t_query)[k])
      /\ \A k \in TokenPlaces(t_query) :
            IsIndependentToken(re_split(t_query)[k])
                => tok_expr(re_split(t_query)[k]) \in DOMAIN t_params
      /\ t_df = NoFrame )
        => /\ t_result = Raised("DependentParameterException")
           /\ t_connector = <<>>

\* The text between the tokens, in order.
RECURSIVE TextOf(_, _)
TextOf(pieces, k) ==
    IF k > Len(pieces) THEN <<>>
    ELSE (IF k % 2 = 1 THEN pieces[k] ELSE <<>>) \o TextOf(pieces, k + 1)

\* C9 as stated, on the templates whose tokens are all comments: render
\* returns the text outside the comments, unchanged and in order.
C9_AsStated ==
    ( /\ t_pc = "rendered"
      /\ \A k \in TokenPlaces(t_query) : IsCommentToken(re_split(t_query)[k]) )
        => t_result = Returned(TextOf(re_split(t_query), 1))

\* The template with the token at place k rewritten as a comment.
Commented(q, k) ==
    LET pieces == re_split(q)
        tok == pieces[k]
    IN  Concat([pieces EXCEPT ![k] =
                  Str2("{", "#") \o SubSeq(tok, 3, Len(tok) - 2) \o Str2("#", "}")])

\* The template with the token at place k deleted.
Deleted(q, k) == Concat([re_split(q) EXCEPT ![k] = <<>>])

Contains(s, p) == \E i \in 1..(Len(s) - Len(p) + 1) : SubSeq(s, i, i + Len(p) - 1) = p

\* C10 as stated: commenting out any independent-parameter token renders
\* as deleting it does.
C10_AsStated ==
    t_pc = "rendered" =>
        \A k \in TokenPlaces(t_query) :
            IsIndependentToken(re_split(t_query)[k])
                => render(Commented(t_query, k), t_df, t_params)
                     = render(Deleted(t_query, k), t_df, t_params)

\* The templates and tokens C10 is amended to: no "{" in the text between the
\* tokens, no "#}" inside the token.
C10_Covered(q, k) ==
    /\ k \in TokenPlaces(q)
    /\ IsIndependentToken(re_split(q)[k])
    /\ \A j \in TextPlaces(q) : ~Contains(re_split(q)[j], Str1("{"))
    /\ ~Contains(SubSeq(re_split(q)[k], 3, Len(re_split(q)[k]) - 2), Str2("#", "}"))

\* C10, amended: when the text between the tokens holds no "{" and the token
\* holds no "#}" inside, commenting the token out renders as deleting it
\* does, in the string returned and in the exception raised.
C10_CommentEqualsDelete ==
    t_pc = "rendered" =>
        \A k \in TokenPlaces(t_query) :
            C10_Covered(t_query, k)
                => render(Commented(t_query, k), t_df, t_params)
                     = render(Deleted(t_query, k), t_df, t_params)

\* A rendered template with text around a covered token whose commented
\* form renders to that text.
C10_Witness ==
    /\ t_pc = "rendered"
    /\ \E k \in TokenPlaces(t_query) :
          /\ C10_Covered(t_query, k)
          /\ Deleted(t_query, k) # <<>>
          /\ render(Commented(t_query, k), t_df, t_params)
                = Returned(Deleted(t_query, k))

\* One of the tokens render finds in q is a dependent parameter.
RenderTreatsAsDependent(q) ==
    \E k \in TokenPlaces(q) : IsDependentToken(re_split(q)[k])

\* C16: has_dependent_parameters returns true exactly when render of the
\* same text would treat at least one token as a dependent parameter; a
\* `{{...}}` inside a comment or inside a `{%...%}` token counts for neither.
C16_AsStated ==
    t_pc = "asked" => (t_has_dependent <=> RenderTreatsAsDependent(t_query))


\* ============================================================ manipulations
\* (querygraph/manipulation/set/manipulation_set.py)
\*
\* Here a frame is the sequence of its columns, left to right, each a record
\* [name, vals] with the values of its rows; pandas allows two columns of
\* one name.  The frames of the model hold no missing value.
MColumn(name, vals) == [name |-> name, vals |-> vals]

columns_values(frame) == [i \in 1..Len(frame) |-> frame[i].name]

HasColumn(frame, name) == \E i \in 1..Len(frame) : frame[i].name = name

\* df[name]: the values of the first column of that name.
GetColumn(frame, name) ==
    frame[CHOOSE i \in 1..Len(frame) :
            /\ frame[i].name = name
            /\ \A j \in 1..(i - 1) : frame[j].name # name].vals

\* df[name] = vals: an existing column keeps its place, a new one goes last.
SetColumn(frame, name, vals) ==
    IF HasColumn(frame, name)
    THEN [i \in 1..Len(frame) |->
            IF frame[i].name = name THEN MColumn(name, vals) ELSE frame[i]]
    ELSE Append(frame, MColumn(name, vals))

\* DataFrame.rename(columns=mapping): every column whose name is a key takes
\* the value as its name; keys that name no column are ignored, and nothing
\* checks whether the new names are distinct.  A mapping is the set of its
\* <<old, new>> items.
Mapped(renames, name) ==
    IF \E item \in renames : item[1] = name
    THEN (CHOOSE item \in renames : item[1] = name)[2]
    ELSE name

df_rename(frame, renames) ==
    [i \in 1..Len(frame) |-> MColumn(Mapped(renames, frame[i].name), frame[i].vals)]

\* DataFrame.drop(labels, axis=1): the columns left keep their order; a
\* label that names no column is a KeyError.
df_drop(frame, labels) ==
    IF \E name \in labels : ~HasColumn(frame, name)
    THEN Raised("KeyError")
    ELSE Returned(SelectSeq(frame, LAMBDA col : col.name \notin labels))

\* Evaluator.eval: the expression "left + right" over two columns, or
\* "left * k" over a column and a number, row by row.
AddExpr(left, right) == [op |-> "+", left |-> left, right |-> right, k |-> 0]
MulExpr(left, k) == [op |-> "*", left |-> left, right |-> left, k |-> k]

evaluator_eval_expr(frame, expr) ==
    IF ~HasColumn(frame, expr.left) \/ ~HasColumn(frame, expr.right)
    THEN Raised("EvaluatorException")
    ELSE LET l == GetColumn(frame, expr.left)
             r == GetColumn(frame, expr.right)
         IN  Returned([i \in 1..Len(l) |->
                         IF expr.op = "+" THEN l[i] + r[i] ELSE l[i] * expr.k])

\* The stages.
Mutate(mutations) ==
    [kind |-> "Mutate", mutations |-> mutations, columns |-> <<>>, renames |-> {}]
Rename(renames) ==
    [kind |-> "Rename", mutations |-> <<>>, columns |-> <<>>, renames |-> renames]
Select(columns) ==
    [kind |-> "Select", mutations |-> <<>>, columns |-> columns, renames |-> {}]
Remove(columns) ==
    [kind |-> "Remove", mutations |-> <<>>, columns |-> columns, renames |-> {}]
Flatten == [kind |-> "Flatten", mutations |-> <<>>, columns |-> <<>>, renames |-> {}]
Unpack == [kind |-> "Unpack", mutations |-> <<>>, columns |-> <<>>, renames |-> {}]
GroupedSummary ==
    [kind |-> "GroupedSummary", mutations |-> <<>>, columns |-> <<>>, renames |-> {}]

Mutation(col_name, col_expr) == [col_name |-> col_name, col_expr |-> col_expr]

\* Mutate._execute: each mutation is evaluated against the frame as the
\* mutations before it left it.
RECURSIVE Mutate_execute(_, _)
Mutate_execute(frame, mutations) ==
    IF mutations = <<>> THEN Returned(frame)
    ELSE LET mutation == Head(mutations)
             vals == evaluator_eval_expr(frame, mutation.col_expr)
         IN  IF vals.exc # "" THEN Raised(vals.exc)
             ELSE Mutate_execute(SetColumn(frame, mutation.col_name, vals.out),
                                 Tail(mutations))

Rename_execute(frame, renames) == Returned(df_rename(frame, renames))

Select_execute(frame, columns) ==
    LET existing_columns == Range(columns_values(frame))
        unneeded_cols == existing_columns \ Range(columns)
    IN  df_drop(frame, unneeded_cols)

Remove_execute(frame, columns) == df_drop(frame, Range(columns))

\* The stages whose effect on a frame is modelled.
Executable == {"Mutate", "Rename", "Select", "Remove"}

\* Manipulation.execute -> _execute of the stage's class.
manipulation_execute(stage, frame) ==
    CASE stage.kind = "Mutate" -> Mutate_execute(frame, stage.mutations)
      [] stage.kind = "Rename" -> Rename_execute(frame, stage.renames)
      [] stage.kind = "Select" -> Select_execute(frame, stage.columns)
      [] stage.kind = "Remove" -> Remove_execute(frame, stage.columns)

\* The frame the loop of ManipulationSet.execute hands to the stage after
\* one that returned out.
unchained(frame, out) == frame

chained(frame, out) == out

\* ManipulationSet.execute: the stages from place k on, applied to frame.
RECURSIVE execute_loop(_, _, _)
execute_loop(manipulations, k, frame) ==
    IF k > Len(manipulations) THEN Returned(frame)
    ELSE LET r == manipulation_execute(manipulations[k], frame)
         IN  IF r.exc # "" THEN r
             ELSE execute_loop(manipulations, k + 1, chained(frame, r.out))

ManipulationSet_execute(manipulations, frame) == execute_loop(manipulations, 1, frame)

\* ManipulationSet.__contains__
ManipulationSet_contains(manipulations, kind) ==
    \E i \in 1..Len(manipulations) : manipulations[i].kind = kind

\* ---------------------------------------------------- the pipeline parser
\* A pipeline text is the sequence of its chain elements, the pieces that
\* `>>` separates; `group_by(...) >> summarize(...)` is one element.  An
\* element is its keyword and its arguments, which are well formed.
KeywordOf(kind) ==
    CASE kind = "Mutate" -> "mutate"
      [] kind = "Rename" -> "rename"
      [] kind = "Select" -> "select"
      [] kind = "Remove" -> "remove"
      [] kind = "Flatten" -> "flatten"
      [] kind = "Unpack" -> "unpack"
      [] kind = "GroupedSummary" -> "group_by >> summarize"

Kinds == {"Mutate", "Rename", "Select", "Remove", "Flatten", "Unpack", "GroupedSummary"}

KindOf(keyword) == CHOOSE kind \in Kinds : KeywordOf(kind) = keyword

\* The written form of a stage.
StageText(stage) ==
    [keyword |-> KeywordOf(stage.kind), mutations |-> stage.mutations,
     columns |-> stage.columns, renames |-> stage.renames]

\* ManipulationSet.parser: the alternatives of `manipulation`, by keyword.
\* (DropNa.parser, the last alternative, reads `group_by` followed by `()`,
\* which no element of a pipeline text of the model is.)
parser_alternatives ==
    {"unpack", "mutate", "flatten", "select", "remove", "group_by >> summarize"}

\* One alternative of `manipulation` matching an element.
parse_manipulation(element) ==
    IF element.keyword \in parser_alternatives
    THEN Returned([kind |-> KindOf(element.keyword), mutations |-> element.mutations,
                   columns |-> element.columns, renames |-> element.renames])
    ELSE Raised("ParseException")

\* pp.delimitedList after its first element: it takes `>>` and an element
\* for as long as both match, and stops without an error where they do not.
RECURSIVE delimited_more(_, _)
delimited_more(text, k) ==
    IF k > Len(text) THEN <<>>
    ELSE LET r == parse_manipulation(text[k])
         IN  IF r.exc # "" THEN <<>>
             ELSE <<r.out>> \o delimited_more(text, k + 1)

\* parser.parseString(text), which does not ask for the whole text to match.
parseString(text) ==
    IF text = <<>> \/ parse_manipulation(text[1]).exc # ""
    THEN Raised("ParseException")
    ELSE Returned(delimited_more(text, 1))

\* ManipulationSet.append_from_str and ManipulationSet.__lshift__
append_from_str(manipulations, text) ==
    LET parsed == parseString(text)
    IN  IF parsed.exc # "" THEN [exc |-> parsed.exc, out |-> manipulations]
        ELSE Returned(manipulations \o parsed.out)

\* ------------------------------------------- the manipulation specification
TestColumnA == <<1, 2>>

MFrames ==
    { <<MColumn("A", TestColumnA), MColumn("B", b)>> : b \in {<<0, 0>>, <<3, 4>>} }
    \cup { <<MColumn("B", b), MColumn("A", TestColumnA)>> : b \in {<<0, 0>>, <<3, 4>>} }

MStages ==
    { Mutate(<<Mutation("test_col", AddExpr("A", "B"))>>),
      Mutate(<<Mutation("twice", MulExpr("test_col", 2))>>),
      Mutate(<<Mutation("test_col", AddExpr("A", "B")),
               Mutation("twice", MulExpr("test_col", 2))>>),
      Rename({<<"A", "new_col">>}),
      Rename({<<"A", "new_col">>, <<"B", "new_col">>}),
      Select(<<"A", "B">>),
      Select(<<"B", "A">>),
      Select(<<"B">>),
      Remove(<<"A">>),
      Remove(<<"test_col">>) }

MElements == { StageText(stage) : stage \in MStages \cup {Flatten, Unpack, GroupedSummary} }

MTexts(n) == UNION { [1..k -> MElements] : k \in 1..n }

MInit ==
    /\ GraphInit
    /\ TemplateIdle
    /\ m_df \in MFrames
    /\ m_manipulations = <<>>
    /\ m_text = <<>>
    /\ m_appended_at = 0
    /\ m_parse = ""
    /\ m_pc = "build"
    /\ m_result = Returned(<<>>)

\* manipulation_set + stage  /  manipulation_set.append(stage)
MAdd(stage) ==
    /\ m_pc = "build"
    /\ m_text = <<>>
    /\ Len(m_manipulations) < MaxStages
    /\ m_manipulations' = Append(m_manipulations, stage)
    /\ UNCHANGED <<m_df, m_text, m_appended_at, m_parse, m_pc, m_result, tvars, gvars>>

\* manipulation_set.append_from_str(text)  /  manipulation_set << text
MAppendFromStr(text) ==
    /\ m_pc = "build"
    /\ m_text = <<>>
    /\ Len(m_manipulations) + Len(text) <= MaxStages
    /\ m_text' = text
    /\ m_appended_at' = Len(m_manipulations)
    /\ LET r == append_from_str(m_manipulations, text)
       IN  /\ m_parse' = r.exc
           /\ m_manipulations' = r.out
    /\ UNCHANGED <<m_df, m_pc, m_result, tvars, gvars>>

\* manipulation_set.execute(df)
MExecute ==
    /\ m_pc = "build"
    /\ \A i \in 1..Len(m_manipulations) : m_manipulations[i].kind \in Executable
    /\ m_pc' = "done"
    /\ m_result' = ManipulationSet_execute(m_manipulations, m_df)
    /\ UNCHANGED <<m_df, m_manipulations, m_text, m_appended_at, m_parse, tvars, gvars>>

MNext ==
    \/ \E stage \in MStages : MAdd(stage)
    \/ \E text \in MTexts(MaxStages) : MAppendFromStr(text)
    \/ MExecute

SpecManipulation == MInit /\ [][MNext]_vars

\* ------------------------------------------------ claims on manipulations
\* sn(...s1(frame)): the last stage applied to what the stages before it
\* made of the frame.
RECURSIVE Composed(_, _)
Composed(stages, frame) ==
    IF stages = <<>> THEN Returned(frame)
    ELSE LET before == Composed(SubSeq(stages, 1, Len(stages) - 1), frame)
         IN  IF before.exc # "" THEN before
             ELSE manipulation_execute(stages[Len(stages)], before.out)

AllZero(vals) == \A i \in 1..Len(vals) : vals[i] = 0

TestMutate == Mutate(<<Mutation("test_col", AddExpr("A", "B"))>>)

TwiceMutate == Mutate(<<Mutation("twice", MulExpr("test_col", 2))>>)

C12_AsStated ==
    ( /\ m_pc = "done"
      /\ Len(m_manipulations) = 1
      /\ m_manipulations[1].kind = "Select"
      /\ \A name \in Range(m_manipulations[1].columns) : HasColumn(m_df, name) )
    => /\ m_result.exc = ""
       /\ columns_values(m_result.out) = m_manipulations[1].columns

\* Two different old names of the mapping, both columns of the frame, map
\* to one new name.
Collides(renames, frame) ==
    \E a \in renames, b \in renames :
        /\ a[1] # b[1]
        /\ a[2] = b[2]
        /\ HasColumn(frame, a[1])
        /\ HasColumn(frame, b[1])

HasDuplicateColumns(frame) ==
    \E i \in 1..Len(frame), j \in 1..Len(frame) : i # j /\ frame[i].name = frame[j].name

\* C13: Rename with a mapping in which two different old column names map
\* to the same new name fails with a ManipulationException, and no frame
\* with duplicate column names comes out of it.
C13_AsStated ==
    ( /\ m_pc = "done"
      /\ Len(m_manipulations) = 1
      /\ m_manipulations[1].kind = "Rename"
      /\ Collides(m_manipulations[1].renames, m_df) )
    => /\ m_result.exc = "ManipulationException"
       /\ ~HasDuplicateColumns(m_result.out)

\* C14: appending a pipeline text, a `>>`-chain of well-formed stages of the
\* keywords mutate, rename, select, remove, flatten, unpack and
\* group_by >> summarize, adds one stage per chain element, in text order,
\* each of the variant its keyword names; after a text with a mutate stage
\* the set contains a Mutate.
C14_AsStated ==
    m_text # <<>> =>
        LET added == SubSeq(m_manipulations, m_appended_at + 1, Len(m_manipulations))
        IN  /\ m_parse = ""
            /\ Len(added) = Len(m_text)
            /\ \A i \in 1..Len(m_text) : added[i].kind = KindOf(m_text[i].keyword)
            /\ (\E i \in 1..Len(m_text) : m_text[i].keyword = "mutate")
                 => ManipulationSet_contains(m_manipulations, "Mutate")

====
